---------------------------- MODULE Spec2Model ----------------------------
(***************************************************************************)
(* Model of the chat session controller of claudecodeui                    *)
(* (src/src/components/MultiAgentChat.jsx).                                *)
(*                                                                         *)
(* The component is a React function component: its state is the set of    *)
(* useState cells and the wsRef reference; its operations are the event    *)
(* handlers bound to the rendered buttons and input, the callbacks bound   *)
(* to each WebSocket it creates, and the 500 ms timer armed by             *)
(* startSession.  Every handler runs to completion on the UI event loop,   *)
(* so each is one atomic action.  The browser's WebSocket object is        *)
(* modelled by its readyState and by the frames it has put on the wire.    *)
(***************************************************************************)
EXTENDS Integers, Sequences, FiniteSets, TLC

(***************************************************************************)
(* Bounds of the exploration                                               *)
(***************************************************************************)
\* number of external stimuli (user gestures and inbound payloads) in one run
MaxEvents == 4
\* number of agent buttons of AVAILABLE_AGENTS the user clicks on
MaxToggle == 1

(***************************************************************************)
(* Program constants                                                       *)
(***************************************************************************)
\* ids of AVAILABLE_AGENTS, in their declared order
AVAILABLE_AGENTS == <<"gemini", "claude", "ollama", "copilot">>

\* the agent buttons the user clicks on in the explored runs
ToggleIds ==
  {AVAILABLE_AGENTS[i] : i \in (1..MaxToggle) \cap (1..Len(AVAILABLE_AGENTS))}

\* WebSocket.readyState
CONNECTING == "CONNECTING"
OPEN == "OPEN"
CLOSING == "CLOSING"
CLOSED == "CLOSED"

\* the JavaScript values null / undefined
Null == "null"
Undefined == "undefined"

(***************************************************************************)
(* Pure functions                                                          *)
(***************************************************************************)
\* texts the user can type into the input box
InputTexts == {"", "  ", " hi "}

\* String.prototype.trim on the texts above
Trim(s) ==
  CASE s = "  " -> ""
    [] s = " hi " -> "hi"
    [] OTHER -> s

\* sender / agent names the gateway uses in inbound envelopes
InboundNames == {"Gemini", "OLLAMA", Undefined}

\* String.prototype.toLowerCase on the names above
ToLowerCase(s) ==
  CASE s = "Gemini" -> "gemini"
    [] s = "OLLAMA" -> "ollama"
    [] OTHER -> s

\* variant of StatusKey that omits toLowerCase()
StatusKey_raw(who) == who

\* the computed property key  [data.sender?.toLowerCase()]  : optional
\* chaining yields undefined for a missing name, and an undefined key is
\* the property "undefined"
StatusKey(who) == IF who = Undefined THEN "undefined" ELSE ToLowerCase(who)

\* arr.includes(x)
Includes(arr, x) == \E i \in 1..Len(arr) : arr[i] = x

\* arr.filter(id => id # x)
RECURSIVE FilterOut(_, _)
FilterOut(arr, x) ==
  IF arr = <<>> THEN <<>>
  ELSE IF Head(arr) = x THEN FilterOut(Tail(arr), x)
       ELSE <<Head(arr)>> \o FilterOut(Tail(arr), x)

\* the updater passed to setSelectedAgents by toggleAgent
ToggledSelection(prev, agentId) ==
  IF Includes(prev, agentId) THEN FilterOut(prev, agentId)
  ELSE Append(prev, agentId)

\* { ...prev, [key]: value }
Spread(prev, key, value) ==
  [k \in DOMAIN prev \cup {key} |-> IF k = key THEN value ELSE prev[k]]

\* the empty object {}
EmptyObj == [k \in {} |-> Null]

\* newStatuses built by sendMessage: one "thinking" entry per selected agent
ThinkingFor(sel) == [k \in {sel[i] : i \in 1..Len(sel)} |-> "thinking"]

(***************************************************************************)
(* State                                                                   *)
(***************************************************************************)
VARIABLES
  messages,        \* useState([])            the message log
  inputValue,      \* useState('')
  selectedAgents,  \* useState(['gemini','claude'])
  isConnected,     \* useState(false)
  isConnecting,    \* useState(false)
  agentStatuses,   \* useState({})
  sessionId,       \* useState(null)
  error,           \* useState(null)
  wsRef,           \* useRef(null): 0 is null, otherwise an index of socks
  socks,           \* the WebSocket objects created so far
  timers,          \* pending setTimeout callbacks of startSession, FIFO
  startSel,        \* history: selection at each startSession that connected
  nLogEnv,         \* history: number of log-producing envelopes delivered
  nEvents,         \* history: number of external stimuli so far
  knownAgents,     \* history: agents selected or heard a status of so far
  lastOp           \* history: the event that was handled last

chatVars == <<messages, inputValue, selectedAgents, isConnected, isConnecting,
              agentStatuses, sessionId, error, wsRef, socks, timers, startSel,
              nLogEnv, nEvents, knownAgents, lastOp>>

\* state of the provider directory of the chat (fetchProviders)
VARIABLES
  providers,       \* useState([])            the cached provider list
  provFetches,     \* the calls of fetchProviders made so far
  provOp           \* history: the provider-directory event handled last

provVars == <<providers, provFetches, provOp>>

\* state of the integration dashboard (IntegrationDashboard.jsx)
VARIABLES
  serviceStatuses,   \* useState({})
  gatewayStats,      \* useState(null)
  gatewayProviders,  \* useState([])
  podcastRuns,       \* useState([])
  isRefreshing,      \* useState(false)
  lastUpdated,       \* useState(null): 0 is null, otherwise a clock reading
  cycles,            \* the calls of refreshAll made so far
  lifecycle,         \* "rendered", "mounted" (effect has run) or "unmounted"
  interval,          \* the setInterval timer of the effect is active
  nDashEvents,       \* history: number of dashboard events so far
  dashOp             \* history: the dashboard event handled last

dashVars == <<serviceStatuses, gatewayStats, gatewayProviders, podcastRuns,
              isRefreshing, lastUpdated, cycles, lifecycle, interval,
              nDashEvents, dashOp>>

\* state of the page that hosts the two views (Integrations)
VARIABLES
  activeView,      \* useState('dashboard'): 'dashboard' or 'chat'
  chatSince,       \* number of sockets created before the chat view mounted
  orphanTimers,    \* pending startSession timers of unmounted chat views
  nViewClicks      \* history: number of clicks on the view selector

shellVars == <<activeView, chatSince, orphanTimers, nViewClicks>>

vars == <<chatVars, provVars, dashVars, shellVars>>

SockIds == 1..Len(socks)

\* wsRef.current?.readyState === WebSocket.OPEN
RefIsOpen == wsRef # 0 /\ socks[wsRef].readyState = OPEN

\* the timer armed by the startSession that created socket s has not fired
TimerPending(s) == \E i \in 1..Len(timers) : timers[i].id = s

\* connection state of the Session, as the component renders it
ConnState ==
  IF isConnected THEN "connected"
  ELSE IF isConnecting THEN "connecting" ELSE "disconnected"

Init ==
  /\ messages = <<>>
  /\ inputValue = ""
  /\ selectedAgents = <<"gemini", "claude">>
  /\ isConnected = FALSE
  /\ isConnecting = FALSE
  /\ agentStatuses = EmptyObj
  /\ sessionId = Null
  /\ error = Null
  /\ wsRef = 0
  /\ socks = <<>>
  /\ timers = <<>>
  /\ startSel = <<>>
  /\ nLogEnv = 0
  /\ nEvents = 0
  /\ knownAgents = {"gemini", "claude"}
  /\ lastOp = [op |-> "mount", arg |-> Null]
  /\ providers = <<>>
  /\ provFetches = <<>>
  /\ provOp = [op |-> "render", f |-> 0, code |-> 0, body |-> Null]
  /\ serviceStatuses = EmptyObj
  /\ gatewayStats = Null
  /\ gatewayProviders = <<>>
  /\ podcastRuns = <<>>
  /\ isRefreshing = FALSE
  /\ lastUpdated = 0
  /\ cycles = <<>>
  /\ lifecycle = "rendered"
  /\ interval = FALSE
  /\ nDashEvents = 0
  /\ dashOp = [op |-> "render", c |-> 0, code |-> 0, body |-> Null]
  /\ activeView = "dashboard"
  /\ chatSince = 0
  /\ orphanTimers = <<>>
  /\ nViewClicks = 0

(***************************************************************************)
(* The WebSocket object                                                    *)
(***************************************************************************)
\* new WebSocket(url).  out is what the socket has transmitted; opened is
\* history: "no" until the open event, then "inWindow" if the timer of the
\* startSession that created the socket was still pending, "late" otherwise
NewSocket ==
  [readyState |-> CONNECTING, failed |-> FALSE, out |-> <<>>, opened |-> "no"]

\* ws.send(frame): transmitted when OPEN, silently discarded when CLOSING or
\* CLOSED.  (In CONNECTING it throws; every call site checks for OPEN.)
WsSend(ss, s, frame) ==
  IF ss[s].readyState = OPEN
  THEN [ss EXCEPT ![s].out = Append(@, frame)]
  ELSE ss

\* ws.close(): starts the closing handshake; closing a socket that is still
\* CONNECTING fails the connection, so its close is preceded by an error
WsClose(ss, s) ==
  IF ss[s].readyState \in {CLOSING, CLOSED} THEN ss
  ELSE [ss EXCEPT ![s].readyState = CLOSING,
                  ![s].failed = (ss[s].readyState = CONNECTING)]

\* JSON.stringify({ type: 'start_session', agents })
StartFrame(agents) == [type |-> "start_session", body |-> agents]
\* JSON.stringify({ type: 'user_message', content })
UserFrame(content) == [type |-> "user_message", body |-> content]
\* JSON.stringify({ type: 'end_session' })
EndFrame == [type |-> "end_session", body |-> Null]

\* entries of the message log
Entry(type, sender, content) ==
  [type |-> type, sender |-> sender, content |-> content]

(***************************************************************************)
(* Inbound payloads                                                        *)
(***************************************************************************)
\* values a status envelope carries in its status field
StatusValues == {"thinking", "busy"}

\* a payload that JSON.parse rejects
Malformed == [ok |-> FALSE, type |-> Null, who |-> Null, val |-> Null]

\* `Session started with agents: ${data.agents?.join(', ')}`
SessionStartedText(agents) ==
  CASE agents = <<"gemini", "claude">> ->
         "Session started with agents: gemini, claude"
    [] agents = <<>> -> "Session started with agents: "

\* a parsed envelope: type, the sender / agent field, the remaining field(s)
Env(type, who, val) == [ok |-> TRUE, type |-> type, who |-> who, val |-> val]

Payloads ==
  {Malformed}
    \cup {Env("message", w, "text") : w \in InboundNames}
    \cup {Env("status", "Gemini", v) : v \in StatusValues}
    \cup {Env("status", w, "thinking") : w \in InboundNames}
    \cup {Env("error", Null, m) : m \in {"boom", Undefined}}
    \cup {Env("session_started", Null, <<"gemini", "claude">>)}
    \cup {Env("action_result", Null, <<"search", "42 hits", TRUE>>)}
    \cup {Env("ping", Null, Null)}

(***************************************************************************)
(* Handlers of the component.  Each constrains only the cells it writes;   *)
(* the event that runs it leaves the remaining cells unchanged.            *)
(***************************************************************************)
\* variant of onopen that starts the log of the new connection afresh
onopen_freshLog ==
  /\ isConnected' = TRUE
  /\ isConnecting' = FALSE
  /\ messages' =
       <<Entry("system", Null, "Connected to Multi-Agent Meeting Room")>>

\* ws.onopen
onopen ==
  /\ isConnected' = TRUE
  /\ isConnecting' = FALSE
  /\ messages' = Append(messages,
                    Entry("system", Null, "Connected to Multi-Agent Meeting Room"))

\* ws.onerror
onerror ==
  error' = "Connection error. Is autogen-conversation server running?"

\* variant of onclose that omits setAgentStatuses({})
onclose_keepStatuses ==
  /\ isConnected' = FALSE
  /\ isConnecting' = FALSE
  /\ agentStatuses' = agentStatuses

\* ws.onclose
onclose ==
  /\ isConnected' = FALSE
  /\ isConnecting' = FALSE
  /\ agentStatuses' = EmptyObj

\* variant of handleWebSocketMessage whose status case also appends to the log
handleWebSocketMessage_statusLogs(data) ==
  CASE data.type = "message" ->
         /\ messages' = Append(messages, Entry("agent", data.who, data.val))
         /\ agentStatuses' = Spread(agentStatuses, StatusKey(data.who), "idle")
    [] data.type = "status" ->
         /\ agentStatuses' = Spread(agentStatuses, StatusKey(data.who), data.val)
         /\ messages' = Append(messages, Entry("system", data.who, data.val))
    [] data.type = "error" ->
         /\ messages' = Append(messages,
              Entry("error", Null,
                    IF data.val = Undefined THEN "Unknown error" ELSE data.val))
         /\ agentStatuses' = agentStatuses
    [] data.type = "session_started" ->
         /\ messages' = Append(messages,
              Entry("system", Null, SessionStartedText(data.val)))
         /\ agentStatuses' = agentStatuses
    [] data.type = "action_result" ->
         /\ messages' = Append(messages, Entry("action", Null, data.val))
         /\ agentStatuses' = agentStatuses
    [] OTHER ->
         /\ messages' = messages
         /\ agentStatuses' = agentStatuses

\* handleWebSocketMessage(data): the switch on data.type
handleWebSocketMessage(data) ==
  CASE data.type = "message" ->
         /\ messages' = Append(messages, Entry("agent", data.who, data.val))
         /\ agentStatuses' = Spread(agentStatuses, StatusKey(data.who), "idle")
    [] data.type = "status" ->
         /\ agentStatuses' = Spread(agentStatuses, StatusKey(data.who), data.val)
         /\ messages' = messages
    [] data.type = "error" ->
         /\ messages' = Append(messages,
              Entry("error", Null,
                    IF data.val = Undefined THEN "Unknown error" ELSE data.val))
         /\ agentStatuses' = agentStatuses
    [] data.type = "session_started" ->
         /\ messages' = Append(messages,
              Entry("system", Null, SessionStartedText(data.val)))
         /\ agentStatuses' = agentStatuses
    [] data.type = "action_result" ->
         /\ messages' = Append(messages, Entry("action", Null, data.val))
         /\ agentStatuses' = agentStatuses
    [] OTHER ->
         /\ messages' = messages
         /\ agentStatuses' = agentStatuses

\* variant of onmessage whose catch block reports the parse failure in the log
onmessage_reportsParseError(payload) ==
  IF payload.ok
  THEN handleWebSocketMessage(payload)
  ELSE /\ messages' = Append(messages, Entry("error", Null, "Invalid message"))
       /\ agentStatuses' = agentStatuses

\* ws.onmessage: JSON.parse inside try / catch, then the dispatch
onmessage(payload) ==
  IF payload.ok
  THEN handleWebSocketMessage(payload)
  ELSE /\ messages' = messages
       /\ agentStatuses' = agentStatuses

\* connect(): called by startSession only when wsRef.current is not OPEN
connect ==
  IF RefIsOpen
  THEN UNCHANGED <<isConnecting, error, sessionId, socks, wsRef>>
  ELSE /\ isConnecting' = TRUE
       /\ error' = Null
       /\ sessionId' = Len(socks) + 1
       /\ socks' = Append(socks, NewSocket)
       /\ wsRef' = Len(socks) + 1

\* variant of disconnect that closes the socket before it sends end_session
disconnect_closeFirst ==
  /\ IF wsRef # 0
     THEN /\ socks' = (IF socks[wsRef].readyState = OPEN
                       THEN WsSend(WsClose(socks, wsRef), wsRef, EndFrame)
                       ELSE WsClose(socks, wsRef))
          /\ wsRef' = 0
     ELSE UNCHANGED <<socks, wsRef>>
  /\ isConnected' = FALSE
  /\ sessionId' = Null

\* disconnect()
disconnect ==
  /\ IF wsRef # 0
     THEN /\ socks' = WsClose(IF socks[wsRef].readyState = OPEN
                              THEN WsSend(socks, wsRef, EndFrame)
                              ELSE socks,
                              wsRef)
          /\ wsRef' = 0
     ELSE UNCHANGED <<socks, wsRef>>
  /\ isConnected' = FALSE
  /\ sessionId' = Null

\* variant of the timer callback that reads the selection when it runs
startTimeout_live(agents) ==
  IF RefIsOpen
  THEN socks' = WsSend(socks, wsRef, StartFrame(selectedAgents))
  ELSE socks' = socks

\* the callback startSession hands to setTimeout(…, 500); agents is the
\* selectedAgents value its closure captured
startTimeout(agents) ==
  IF RefIsOpen
  THEN socks' = WsSend(socks, wsRef, StartFrame(agents))
  ELSE socks' = socks

\* startSession()
startSession ==
  IF ~RefIsOpen
  THEN /\ connect
       /\ timers' = Append(timers, [id |-> Len(socks) + 1,
                                    agents |-> selectedAgents])
       /\ startSel' = Append(startSel, selectedAgents)
  ELSE /\ socks' = WsSend(socks, wsRef, StartFrame(selectedAgents))
       /\ UNCHANGED <<isConnecting, error, sessionId, wsRef, timers, startSel>>

\* variant of sendMessage that tests inputValue without trim()
sendMessage_noTrim ==
  IF inputValue = "" \/ wsRef = 0 \/ ~RefIsOpen
  THEN UNCHANGED <<messages, socks, inputValue, agentStatuses>>
  ELSE /\ messages' = Append(messages, Entry("user", Null, Trim(inputValue)))
       /\ socks' = WsSend(socks, wsRef, UserFrame(Trim(inputValue)))
       /\ inputValue' = ""
       /\ agentStatuses' = ThinkingFor(selectedAgents)

\* variant of sendMessage that transmits inputValue as typed
sendMessage_untrimmedFrame ==
  IF Trim(inputValue) = "" \/ wsRef = 0 \/ ~RefIsOpen
  THEN UNCHANGED <<messages, socks, inputValue, agentStatuses>>
  ELSE /\ messages' = Append(messages, Entry("user", Null, Trim(inputValue)))
       /\ socks' = WsSend(socks, wsRef, UserFrame(inputValue))
       /\ inputValue' = ""
       /\ agentStatuses' = ThinkingFor(selectedAgents)

\* variant of sendMessage that spreads the previous map into the new one
sendMessage_mergeStatuses ==
  IF Trim(inputValue) = "" \/ wsRef = 0 \/ ~RefIsOpen
  THEN UNCHANGED <<messages, socks, inputValue, agentStatuses>>
  ELSE /\ messages' = Append(messages, Entry("user", Null, Trim(inputValue)))
       /\ socks' = WsSend(socks, wsRef, UserFrame(Trim(inputValue)))
       /\ inputValue' = ""
       /\ agentStatuses' =
            [k \in DOMAIN agentStatuses \cup DOMAIN ThinkingFor(selectedAgents)
               |-> IF k \in DOMAIN ThinkingFor(selectedAgents)
                   THEN "thinking" ELSE agentStatuses[k]]

\* sendMessage()
sendMessage ==
  IF Trim(inputValue) = "" \/ wsRef = 0 \/ ~RefIsOpen
  THEN UNCHANGED <<messages, socks, inputValue, agentStatuses>>
  ELSE /\ messages' = Append(messages, Entry("user", Null, Trim(inputValue)))
       /\ socks' = WsSend(socks, wsRef, UserFrame(Trim(inputValue)))
       /\ inputValue' = ""
       /\ agentStatuses' = ThinkingFor(selectedAgents)

\* toggleAgent(agentId)
toggleAgent(agentId) ==
  selectedAgents' = ToggledSelection(selectedAgents, agentId)

(***************************************************************************)
(* What the render enables: a button that is not rendered cannot be        *)
(* clicked, and a click on a disabled button runs no handler.              *)
(***************************************************************************)
\* variant of the selector button that is never disabled
toggleDisabled_never == FALSE

\* agent selector button: disabled={isConnected}
toggleDisabled == isConnected

\* {!isConnected && <button onClick={startSession} …>}
startRendered == ~isConnected

\* disabled={selectedAgents.length === 0 || isConnecting}
startDisabled == Len(selectedAgents) = 0 \/ isConnecting

\* {isConnected && <button onClick={disconnect}>}
endRendered == isConnected

\* <input … disabled={!isConnected}>
inputDisabled == ~isConnected

\* send button: disabled={!isConnected || !inputValue.trim()}
sendDisabled == ~isConnected \/ Trim(inputValue) = ""

(***************************************************************************)
(* Events of the UI event loop                                             *)
(***************************************************************************)
Op(name, arg) == [op |-> name, arg |-> arg]

\* the user clicks the selector button of agent a
ClickToggle(a) ==
  /\ nEvents < MaxEvents
  /\ nEvents' = nEvents + 1
  /\ IF toggleDisabled
     THEN UNCHANGED selectedAgents
     ELSE toggleAgent(a)
  /\ knownAgents' = knownAgents \cup {selectedAgents'[i] : i \in 1..Len(selectedAgents')}
  /\ lastOp' = Op("toggle", a)
  /\ UNCHANGED <<messages, inputValue, isConnected, isConnecting,
                 agentStatuses, sessionId, error, wsRef, socks, timers,
                 startSel, nLogEnv>>
  /\ UNCHANGED <<provVars, dashVars, shellVars>>

\* the user clicks "Start Session"
ClickStart ==
  /\ nEvents < MaxEvents
  /\ nEvents' = nEvents + 1
  /\ startRendered
  /\ IF startDisabled
     THEN UNCHANGED <<isConnecting, error, sessionId, wsRef, socks, timers,
                      startSel>>
     ELSE startSession
  /\ lastOp' = Op("start", Null)
  /\ UNCHANGED <<messages, inputValue, selectedAgents, isConnected,
                 agentStatuses, nLogEnv>>
  /\ UNCHANGED knownAgents
  /\ UNCHANGED <<provVars, dashVars, shellVars>>

\* the 500 ms timer of the oldest pending startSession expires
TimerFire ==
  /\ timers # <<>>
  /\ startTimeout(Head(timers).agents)
  /\ timers' = Tail(timers)
  /\ lastOp' = Op("timer", Null)
  /\ UNCHANGED <<messages, inputValue, selectedAgents, isConnected,
                 isConnecting, agentStatuses, sessionId, error, wsRef,
                 startSel, nLogEnv, nEvents>>
  /\ UNCHANGED knownAgents
  /\ UNCHANGED <<provVars, dashVars, shellVars>>

\* the user clicks "End Session"
ClickEnd ==
  /\ nEvents < MaxEvents
  /\ nEvents' = nEvents + 1
  /\ endRendered
  /\ disconnect
  /\ lastOp' = Op("end", Null)
  /\ UNCHANGED <<messages, inputValue, selectedAgents, isConnecting,
                 agentStatuses, error, timers, startSel, nLogEnv>>
  /\ UNCHANGED knownAgents
  /\ UNCHANGED <<provVars, dashVars, shellVars>>

\* the user edits the input box: onChange sets inputValue
TypeInput(v) ==
  /\ nEvents < MaxEvents
  /\ nEvents' = nEvents + 1
  /\ ~inputDisabled
  /\ v # inputValue
  /\ inputValue' = v
  /\ lastOp' = Op("type", Null)
  /\ UNCHANGED <<messages, selectedAgents, isConnected, isConnecting,
                 agentStatuses, sessionId, error, wsRef, socks, timers,
                 startSel, nLogEnv>>
  /\ UNCHANGED knownAgents
  /\ UNCHANGED <<provVars, dashVars, shellVars>>

\* the user presses Enter in the input box: onKeyDown calls sendMessage
PressEnter ==
  /\ nEvents < MaxEvents
  /\ nEvents' = nEvents + 1
  /\ ~inputDisabled
  /\ sendMessage
  /\ lastOp' = Op("send", Null)
  /\ UNCHANGED <<selectedAgents, isConnected, isConnecting, sessionId, error,
                 wsRef, timers, startSel, nLogEnv>>
  /\ UNCHANGED knownAgents
  /\ UNCHANGED <<provVars, dashVars, shellVars>>

\* the user clicks the send button
ClickSend ==
  /\ nEvents < MaxEvents
  /\ nEvents' = nEvents + 1
  /\ IF sendDisabled
     THEN UNCHANGED <<messages, socks, inputValue, agentStatuses>>
     ELSE sendMessage
  /\ lastOp' = Op("send", Null)
  /\ UNCHANGED <<selectedAgents, isConnected, isConnecting, sessionId, error,
                 wsRef, timers, startSel, nLogEnv>>
  /\ UNCHANGED knownAgents
  /\ UNCHANGED <<provVars, dashVars, shellVars>>

(***************************************************************************)
(* Events of the transport                                                 *)
(***************************************************************************)
\* envelope types whose case in handleWebSocketMessage appends to the log
LogTypes == {"message", "error", "session_started", "action_result"}

\* variant of the open event that sends the start request the timer dropped
SockOpen_flush(s) ==
  /\ socks[s].readyState = CONNECTING
  /\ socks' = [socks EXCEPT
       ![s].readyState = OPEN,
       ![s].opened = IF TimerPending(s) THEN "inWindow" ELSE "late",
       ![s].out = IF TimerPending(s) THEN @
                  ELSE Append(@, StartFrame(startSel[s]))]
  /\ onopen
  /\ lastOp' = Op("open", Null)
  /\ UNCHANGED <<inputValue, selectedAgents, agentStatuses, sessionId, error,
                 wsRef, timers, startSel, nLogEnv, nEvents>>
  /\ UNCHANGED knownAgents
  /\ UNCHANGED <<provVars, dashVars, shellVars>>

\* the connection of socket s is established: readyState OPEN, open event
SockOpen(s) ==
  /\ socks[s].readyState = CONNECTING
  /\ socks' = [socks EXCEPT ![s].readyState = OPEN,
                            ![s].opened = IF TimerPending(s) THEN "inWindow"
                                          ELSE "late"]
  /\ onopen
  /\ lastOp' = Op("open", Null)
  /\ UNCHANGED <<inputValue, selectedAgents, agentStatuses, sessionId, error,
                 wsRef, timers, startSel, nLogEnv, nEvents>>
  /\ UNCHANGED knownAgents
  /\ UNCHANGED <<provVars, dashVars, shellVars>>

\* the gateway starts the closing handshake of socket s: readyState
\* becomes CLOSING, no event is dispatched yet
PeerClosing(s) ==
  /\ socks[s].readyState = OPEN
  /\ socks' = [socks EXCEPT ![s].readyState = CLOSING]
  /\ lastOp' = Op("closing", Null)
  /\ UNCHANGED <<messages, inputValue, selectedAgents, isConnected,
                 isConnecting, agentStatuses, sessionId, error, wsRef, timers,
                 startSel, nLogEnv, nEvents>>
  /\ UNCHANGED knownAgents
  /\ UNCHANGED <<provVars, dashVars, shellVars>>

\* the closing handshake of socket s completes: readyState CLOSED, then the
\* error event if the connection was failed, then the close event
SockClosed(s) ==
  /\ socks[s].readyState = CLOSING
  /\ socks' = [socks EXCEPT ![s].readyState = CLOSED]
  /\ IF socks[s].failed THEN onerror ELSE UNCHANGED error
  /\ onclose
  /\ lastOp' = Op("close", Null)
  /\ UNCHANGED <<messages, inputValue, selectedAgents, sessionId, wsRef,
                 timers, startSel, nLogEnv, nEvents>>
  /\ UNCHANGED knownAgents
  /\ UNCHANGED <<provVars, dashVars, shellVars>>

\* the connection of socket s is refused or lost: readyState CLOSED, error
\* event, close event
SockFail(s) ==
  /\ socks[s].readyState \in {CONNECTING, OPEN}
  /\ socks' = [socks EXCEPT ![s].readyState = CLOSED, ![s].failed = TRUE]
  /\ onerror
  /\ onclose
  /\ lastOp' = Op("close", Null)
  /\ UNCHANGED <<messages, inputValue, selectedAgents, sessionId, wsRef,
                 timers, startSel, nLogEnv, nEvents>>
  /\ UNCHANGED knownAgents
  /\ UNCHANGED <<provVars, dashVars, shellVars>>

\* a payload arrives on socket s; the message event is dispatched only while
\* readyState is OPEN
Deliver(s, payload) ==
  /\ socks[s].readyState = OPEN
  /\ nEvents < MaxEvents
  /\ nEvents' = nEvents + 1
  /\ onmessage(payload)
  /\ nLogEnv' = IF payload.ok /\ payload.type \in LogTypes
                THEN nLogEnv + 1 ELSE nLogEnv
  /\ knownAgents' = IF payload.ok /\ payload.type = "status"
                    THEN knownAgents \cup {StatusKey(payload.who)}
                    ELSE knownAgents
  /\ lastOp' = Op("message", IF payload.ok THEN payload.type ELSE "unparseable")
  /\ UNCHANGED <<inputValue, selectedAgents, isConnected, isConnecting,
                 sessionId, error, wsRef, socks, timers, startSel>>
  /\ UNCHANGED <<provVars, dashVars, shellVars>>

Next ==
  \/ \E a \in ToggleIds : ClickToggle(a)
  \/ ClickStart
  \/ TimerFire
  \/ ClickEnd
  \/ \E v \in InputTexts : TypeInput(v)
  \/ PressEnter
  \/ ClickSend
  \/ \E s \in SockIds : SockOpen(s)
  \/ \E s \in SockIds : PeerClosing(s)
  \/ \E s \in SockIds : SockClosed(s)
  \/ \E s \in SockIds : SockFail(s)
  \/ \E s \in SockIds, p \in Payloads : Deliver(s, p)

Spec == Init /\ [][Next]_vars

(***************************************************************************)
(* The integration dashboard (src/src/components/IntegrationDashboard.jsx) *)
(*                                                                         *)
(* refreshAll is an async function: every call is a cycle that advances    *)
(* from one await to the next.  What runs between two awaits runs to       *)
(* completion on the UI event loop, so the settlement of the awaited       *)
(* request together with the continuation up to the next await is one      *)
(* atomic action.  A request the service never answers is an await that    *)
(* no action resumes.                                                      *)
(***************************************************************************)
\* number of events of the dashboard after its mount in one run: periods
\* of the interval, clicks, the teardown, and what the services send or fail
\* to send; the abort timers of the probes fire outside this budget
MaxDashEvents == 5
\* number of calls of refreshAll in one run
MaxCycles == 2

\* ids of SERVICES, in their declared order
SERVICES == <<"news-podcaster", "genai-gateway", "n8n", "claudecodeui">>

\* the services refreshAll fetches details of
GATEWAY == "genai-gateway"
PODCAST == "news-podcaster"

\* status codes the services answer with
StatusCodes == {200, 404}

\* what a response body can hold: text that is not JSON, the JSON value
\* null, or the documented payload
Bodies == {"garbage", "null", "full"}

\* variant of response.ok that accepts every status below 500
ResponseOk_below500(code) == code >= 200 /\ code <= 499

\* response.ok
ResponseOk(code) == code >= 200 /\ code <= 299

\* `HTTP ${response.status}`
HttpError(code) == "HTTP " \o ToString(code)

\* the object checkServiceHealth returns; cycle is history: the call of
\* refreshAll that made the probe
Result(status, err, data, c) ==
  [status |-> status, error |-> err, data |-> data, cycle |-> c]

\* a fresh call of refreshAll, suspended in the fetch of its first probe
\* with the abort timer armed
NewCycle(by) ==
  [by |-> by, pc |-> "probe", idx |-> 1, phase |-> "headers", timer |-> TRUE,
   code |-> 0, statuses |-> EmptyObj]

CycleIds == 1..Len(cycles)

\* statuses[id]?.status === 'online'
IsOnline(statuses, id) ==
  id \in DOMAIN statuses /\ statuses[id].status = "online"

\* variant that fetches the podcast runs whatever the probe returned
AfterGateway_always(statuses) == "runs"

\* the request refreshAll awaits after fetchGatewayDetails has returned
AfterGateway(statuses) ==
  IF IsOnline(statuses, PODCAST) THEN "runs" ELSE "done"

\* the request refreshAll awaits after setServiceStatuses(statuses)
AfterStore(statuses) ==
  IF IsOnline(statuses, GATEWAY) THEN "providers" ELSE AfterGateway(statuses)

\* cycle c moves on to pc: it suspends in the fetch of the next request, or
\* it runs setLastUpdated(new Date()) and setIsRefreshing(false) and
\* returns, which ends the life of its local map
Goto(c, cyc, pc) ==
  /\ cycles' = [cycles EXCEPT ![c] =
       [cyc EXCEPT !.pc = pc, !.phase = "headers", !.code = 0,
                   !.timer = FALSE,
                   !.statuses = IF pc = "done" THEN EmptyObj ELSE @]]
  /\ IF pc = "done"
     THEN /\ lastUpdated' = lastUpdated + 1
          /\ isRefreshing' = FALSE
     ELSE UNCHANGED <<lastUpdated, isRefreshing>>

\* variant of the probe loop that stores every status as soon as it is known
ProbeSettled_incremental(c, result) ==
  LET cyc == cycles[c]
      statuses == Spread(cyc.statuses, SERVICES[cyc.idx], result)
  IN  /\ serviceStatuses' = Spread(serviceStatuses, SERVICES[cyc.idx], result)
      /\ IF cyc.idx < Len(SERVICES)
         THEN /\ cycles' = [cycles EXCEPT ![c] =
                   [cyc EXCEPT !.statuses = statuses, !.idx = @ + 1,
                               !.phase = "headers", !.code = 0,
                               !.timer = TRUE]]
              /\ UNCHANGED <<lastUpdated, isRefreshing>>
         ELSE Goto(c, [cyc EXCEPT !.statuses = statuses],
                   AfterStore(statuses))

\* checkServiceHealth has returned result to the loop of cycle c: the loop
\* records it and probes the next service, or after the last service
\* refreshAll stores the map and goes on to the detail fetches
ProbeSettled(c, result) ==
  LET cyc == cycles[c]
      statuses == Spread(cyc.statuses, SERVICES[cyc.idx], result)
  IN  IF cyc.idx < Len(SERVICES)
      THEN /\ cycles' = [cycles EXCEPT ![c] =
                [cyc EXCEPT !.statuses = statuses, !.idx = @ + 1,
                            !.phase = "headers", !.code = 0, !.timer = TRUE]]
           /\ UNCHANGED <<serviceStatuses, lastUpdated, isRefreshing>>
      ELSE /\ serviceStatuses' = statuses
           /\ Goto(c, [cyc EXCEPT !.statuses = statuses],
                   AfterStore(statuses))

\* the request a detail fetch of cycle c is followed by when its response
\* is not ok: fetchGatewayDetails goes on to the statistics
AfterNotOk(cyc) ==
  CASE cyc.pc = "providers" -> "statistics"
    [] cyc.pc = "statistics" -> AfterGateway(cyc.statuses)
    [] cyc.pc = "runs" -> "done"

\* the request a detail fetch of cycle c is followed by when it throws: the
\* catch block ends fetchGatewayDetails or fetchPodcastRuns
AfterThrow(cyc) ==
  CASE cyc.pc \in {"providers", "statistics"} -> AfterGateway(cyc.statuses)
    [] cyc.pc = "runs" -> "done"

\* the request a detail fetch of cycle c is followed by when it succeeds
AfterSuccess(cyc) ==
  CASE cyc.pc = "providers" -> "statistics"
    [] cyc.pc = "statistics" -> AfterGateway(cyc.statuses)
    [] cyc.pc = "runs" -> "done"

\* data.providers || []
ProvidersOf(body) == IF body = "full" THEN <<"openai", "gemini">> ELSE <<>>

\* the value response.json() resolves with
JsonOf(body) ==
  CASE body = "null" -> Null
    [] body = "full" -> "{total_calls}"

\* data || [] of fetchPodcastRuns
RunsOf(body) == IF body = "full" THEN <<"run-1">> ELSE <<>>

Pcs == {"providers", "statistics", "runs"}

DashOp(op, c, code, body) == [op |-> op, c |-> c, code |-> code, body |-> body]

\* bodies the health endpoints answer with
HealthBodies == {"garbage", "full"}

\* the synchronous start of refreshAll: setIsRefreshing(true) and the first
\* probe's request
refreshAll(by) ==
  /\ isRefreshing' = TRUE
  /\ cycles' = Append(cycles, NewCycle(by))

\* the effect of the component: refreshAll() and setInterval(refreshAll)
Mount ==
  /\ lifecycle = "rendered"
  /\ lifecycle' = "mounted"
  /\ refreshAll("mount")
  /\ interval' = TRUE
  /\ dashOp' = DashOp("mount", Len(cycles) + 1, 0, Null)
  /\ UNCHANGED <<serviceStatuses, gatewayStats, gatewayProviders, podcastRuns,
                 lastUpdated, nDashEvents>>
  /\ UNCHANGED <<chatVars, provVars, shellVars>>

\* variant of the interval callback that skips the period while a cycle runs
IntervalTick_guarded ==
  /\ interval
  /\ Len(cycles) < MaxCycles
  /\ nDashEvents < MaxDashEvents
  /\ nDashEvents' = nDashEvents + 1
  /\ IF isRefreshing
     THEN UNCHANGED <<isRefreshing, cycles>>
     ELSE refreshAll("interval")
  /\ dashOp' = DashOp("tick", Len(cycles) + 1, 0, Null)
  /\ UNCHANGED <<serviceStatuses, gatewayStats, gatewayProviders, podcastRuns,
                 lastUpdated, lifecycle, interval>>
  /\ UNCHANGED <<chatVars, provVars, shellVars>>

\* a period of the interval elapses: the timer calls refreshAll
IntervalTick ==
  /\ interval
  /\ Len(cycles) < MaxCycles
  /\ nDashEvents < MaxDashEvents
  /\ nDashEvents' = nDashEvents + 1
  /\ refreshAll("interval")
  /\ dashOp' = DashOp("tick", Len(cycles) + 1, 0, Null)
  /\ UNCHANGED <<serviceStatuses, gatewayStats, gatewayProviders, podcastRuns,
                 lastUpdated, lifecycle, interval>>
  /\ UNCHANGED <<chatVars, provVars, shellVars>>

\* the user clicks Refresh, which is disabled while isRefreshing
ClickRefresh ==
  /\ lifecycle = "mounted"
  /\ ~isRefreshing
  /\ Len(cycles) < MaxCycles
  /\ nDashEvents < MaxDashEvents
  /\ nDashEvents' = nDashEvents + 1
  /\ refreshAll("button")
  /\ dashOp' = DashOp("click", Len(cycles) + 1, 0, Null)
  /\ UNCHANGED <<serviceStatuses, gatewayStats, gatewayProviders, podcastRuns,
                 lastUpdated, lifecycle, interval>>
  /\ UNCHANGED <<chatVars, provVars, shellVars>>

\* variant of the teardown that leaves the interval timer running
Unmount_keepsInterval ==
  /\ lifecycle = "mounted"
  /\ nDashEvents < MaxDashEvents
  /\ nDashEvents' = nDashEvents + 1
  /\ lifecycle' = "unmounted"
  /\ interval' = interval
  /\ dashOp' = DashOp("unmount", 0, 0, Null)
  /\ UNCHANGED <<serviceStatuses, gatewayStats, gatewayProviders, podcastRuns,
                 isRefreshing, lastUpdated, cycles>>
  /\ UNCHANGED <<chatVars, provVars, shellVars>>

\* the shell replaces the dashboard by another view: the cleanup of the
\* effect runs clearInterval; calls of refreshAll in flight go on
Unmount ==
  /\ lifecycle = "mounted"
  /\ nDashEvents < MaxDashEvents
  /\ nDashEvents' = nDashEvents + 1
  /\ lifecycle' = "unmounted"
  /\ interval' = FALSE
  /\ dashOp' = DashOp("unmount", 0, 0, Null)
  /\ UNCHANGED <<serviceStatuses, gatewayStats, gatewayProviders, podcastRuns,
                 isRefreshing, lastUpdated, cycles>>
  /\ UNCHANGED <<chatVars, provVars, shellVars>>

\* the response headers of the probe of cycle c arrive: clearTimeout, then
\* either the body is awaited or the error status is returned
ProbeRespond(c, code) ==
  /\ cycles[c].pc = "probe"
  /\ cycles[c].phase = "headers"
  /\ nDashEvents < MaxDashEvents
  /\ nDashEvents' = nDashEvents + 1
  /\ IF ResponseOk(code)
     THEN /\ cycles' = [cycles EXCEPT ![c].phase = "body", ![c].code = code,
                                      ![c].timer = FALSE]
          /\ UNCHANGED <<serviceStatuses, lastUpdated, isRefreshing>>
     ELSE /\ ProbeSettled(c, Result("error", HttpError(code), Null, c))
  /\ dashOp' = DashOp("respond", c, code, Null)
  /\ UNCHANGED <<gatewayStats, gatewayProviders, podcastRuns, lifecycle,
                 interval>>
  /\ UNCHANGED <<chatVars, provVars, shellVars>>

\* the request of the probe of cycle c fails (connection refused or lost):
\* fetch or response.json() rejects with a TypeError
ProbeNetFail(c) ==
  /\ cycles[c].pc = "probe"
  /\ nDashEvents < MaxDashEvents
  /\ nDashEvents' = nDashEvents + 1
  /\ ProbeSettled(c, Result("offline", "Failed to fetch", Null, c))
  /\ dashOp' = DashOp("netfail", c, cycles[c].code, Null)
  /\ UNCHANGED <<gatewayStats, gatewayProviders, podcastRuns, lifecycle,
                 interval>>
  /\ UNCHANGED <<chatVars, provVars, shellVars>>

\* the 5000 ms timer of the probe of cycle c fires: controller.abort()
\* rejects the pending request with an AbortError
ProbeAbort(c) ==
  /\ cycles[c].pc = "probe"
  /\ cycles[c].timer
  /\ ProbeSettled(c, Result("timeout", "Request timeout", Null, c))
  /\ dashOp' = DashOp("abort", c, cycles[c].code, Null)
  /\ UNCHANGED <<gatewayStats, gatewayProviders, podcastRuns, lifecycle,
                 interval, nDashEvents>>
  /\ UNCHANGED <<chatVars, provVars, shellVars>>

\* the body of the probe response of cycle c is complete: response.json()
\* resolves, or rejects with a SyntaxError
ProbeBody(c, body) ==
  /\ cycles[c].pc = "probe"
  /\ cycles[c].phase = "body"
  /\ nDashEvents < MaxDashEvents
  /\ nDashEvents' = nDashEvents + 1
  /\ IF body = "garbage"
     THEN /\ ProbeSettled(c, Result("offline", "Unexpected token", Null, c))
     ELSE /\ ProbeSettled(c, Result("online", Null, JsonOf(body), c))
  /\ dashOp' = DashOp("body", c, cycles[c].code, body)
  /\ UNCHANGED <<gatewayStats, gatewayProviders, podcastRuns, lifecycle,
                 interval>>
  /\ UNCHANGED <<chatVars, provVars, shellVars>>

\* variant of the catch blocks of the detail fetches that clears the caches
DetailsFailed_clears ==
  /\ gatewayProviders' = <<>>
  /\ gatewayStats' = Null
  /\ podcastRuns' = <<>>

\* the catch blocks of fetchGatewayDetails and fetchPodcastRuns, and the
\* missing else of their if (response.ok): nothing is stored
DetailsFailed == UNCHANGED <<gatewayProviders, gatewayStats, podcastRuns>>

\* the setter a detail fetch calls with the parsed body
DetailsStored(pc, body) ==
  CASE pc = "providers" ->
         /\ gatewayProviders' = ProvidersOf(body)
         /\ UNCHANGED <<gatewayStats, podcastRuns>>
    [] pc = "statistics" ->
         /\ gatewayStats' = JsonOf(body)
         /\ UNCHANGED <<gatewayProviders, podcastRuns>>
    [] pc = "runs" ->
         /\ podcastRuns' = RunsOf(body)
         /\ UNCHANGED <<gatewayProviders, gatewayStats>>

\* response.json() rejects, or the use of the parsed value throws
BodyThrows(pc, body) ==
  body = "garbage" \/ (pc = "providers" /\ body = "null")

\* the response headers of the detail fetch of cycle c arrive
DetailRespond(c, code) ==
  /\ cycles[c].pc \in Pcs
  /\ cycles[c].phase = "headers"
  /\ nDashEvents < MaxDashEvents
  /\ nDashEvents' = nDashEvents + 1
  /\ IF ResponseOk(code)
     THEN /\ cycles' = [cycles EXCEPT ![c].phase = "body", ![c].code = code]
          /\ UNCHANGED <<lastUpdated, isRefreshing>>
     ELSE /\ Goto(c, cycles[c], AfterNotOk(cycles[c]))
  /\ DetailsFailed
  /\ dashOp' = DashOp("respond", c, code, Null)
  /\ UNCHANGED <<serviceStatuses, lifecycle, interval>>
  /\ UNCHANGED <<chatVars, provVars, shellVars>>

\* the request of the detail fetch of cycle c fails: fetch or
\* response.json() rejects with a TypeError, the catch block logs it
DetailNetFail(c) ==
  /\ cycles[c].pc \in Pcs
  /\ nDashEvents < MaxDashEvents
  /\ nDashEvents' = nDashEvents + 1
  /\ Goto(c, cycles[c], AfterThrow(cycles[c]))
  /\ DetailsFailed
  /\ dashOp' = DashOp("netfail", c, cycles[c].code, Null)
  /\ UNCHANGED <<serviceStatuses, lifecycle, interval>>
  /\ UNCHANGED <<chatVars, provVars, shellVars>>

\* the body of the detail response of cycle c is complete
DetailBody(c, body) ==
  /\ cycles[c].pc \in Pcs
  /\ cycles[c].phase = "body"
  /\ nDashEvents < MaxDashEvents
  /\ nDashEvents' = nDashEvents + 1
  /\ IF BodyThrows(cycles[c].pc, body)
     THEN /\ Goto(c, cycles[c], AfterThrow(cycles[c]))
          /\ DetailsFailed
     ELSE /\ Goto(c, cycles[c], AfterSuccess(cycles[c]))
          /\ DetailsStored(cycles[c].pc, body)
  /\ dashOp' = DashOp("body", c, cycles[c].code, body)
  /\ UNCHANGED <<serviceStatuses, lifecycle, interval>>
  /\ UNCHANGED <<chatVars, provVars, shellVars>>

NextDash ==
  \/ Mount
  \/ IntervalTick
  \/ ClickRefresh
  \/ Unmount
  \/ \E c \in CycleIds, code \in StatusCodes : ProbeRespond(c, code)
  \/ \E c \in CycleIds : ProbeNetFail(c)
  \/ \E c \in CycleIds : ProbeAbort(c)
  \/ \E c \in CycleIds, body \in HealthBodies : ProbeBody(c, body)
  \/ \E c \in CycleIds, code \in StatusCodes : DetailRespond(c, code)
  \/ \E c \in CycleIds : DetailNetFail(c)
  \/ \E c \in CycleIds, body \in Bodies : DetailBody(c, body)

SpecDash == Init /\ [][NextDash]_vars

\* the timers of the browser fire: an armed abort timer is not postponed
\* for ever.  Nothing makes a service answer.
FairSpecDash ==
  /\ SpecDash
  /\ \A c \in 1..MaxCycles : WF_vars(c \in CycleIds /\ ProbeAbort(c))

(***************************************************************************)
(* The provider directory of the chat (fetchProviders of                   *)
(* src/src/components/MultiAgentChat.jsx).  Every call is an async         *)
(* function suspended in its fetch and then in response.json(); nothing    *)
(* keeps two calls from being in flight at once.                           *)
(***************************************************************************)
\* number of calls of fetchProviders in one run
MaxProvFetches == 3

\* what the body of the answer of /providers can hold: text that is not
\* JSON, the JSON value null, an object without providers, or an object
\* with a list of one or of two providers
ProviderBodies == {"garbage", "null", "empty", "one", "two"}

\* data.providers || [] of fetchProviders
DirectoryOf(body) ==
  CASE body = "one" -> <<"gemini">>
    [] body = "two" -> <<"gemini", "claude">>
    [] OTHER -> <<>>

\* response.json() rejects, or data.providers throws on null
DirectoryThrows(body) == body \in {"garbage", "null"}

FetchIds == 1..Len(provFetches)

ProvOp(op, f, code, body) ==
  [op |-> op, f |-> f, code |-> code, body |-> body]

\* the synchronous start of fetchProviders: the request is sent
fetchProviders(by) ==
  provFetches' =
    Append(provFetches, [by |-> by, phase |-> "headers", code |-> 0])

\* the effect that runs once when the chat mounts
ProvMount ==
  /\ provOp.op = "render"
  /\ fetchProviders("mount")
  /\ provOp' = ProvOp("mount", 1, 0, Null)
  /\ UNCHANGED providers
  /\ UNCHANGED <<chatVars, dashVars, shellVars>>

\* the user clicks "Refresh providers"
ClickRefreshProviders ==
  /\ provOp.op # "render"
  /\ Len(provFetches) < MaxProvFetches
  /\ fetchProviders("button")
  /\ provOp' = ProvOp("click", Len(provFetches) + 1, 0, Null)
  /\ UNCHANGED providers
  /\ UNCHANGED <<chatVars, dashVars, shellVars>>

\* the response headers of call f arrive: the body is awaited if
\* response.ok, otherwise the call returns
ProvRespond(f, code) ==
  /\ provFetches[f].phase = "headers"
  /\ provFetches' = [provFetches EXCEPT
       ![f].phase = IF ResponseOk(code) THEN "body" ELSE "done",
       ![f].code = code]
  /\ provOp' = ProvOp("respond", f, code, Null)
  /\ UNCHANGED providers
  /\ UNCHANGED <<chatVars, dashVars, shellVars>>

\* the request of call f fails: fetch or response.json() rejects with a
\* TypeError, the catch block logs it
ProvNetFail(f) ==
  /\ provFetches[f].phase \in {"headers", "body"}
  /\ provFetches' = [provFetches EXCEPT ![f].phase = "done"]
  /\ provOp' = ProvOp("netfail", f, provFetches[f].code, Null)
  /\ UNCHANGED providers
  /\ UNCHANGED <<chatVars, dashVars, shellVars>>

\* variant of setProviders that adds the fetched list to the cached one
setProviders_merge(list) == providers' = providers \o list

\* setProviders(list)
setProviders(list) == providers' = list

\* the body of the response of call f is complete
ProvBody(f, body) ==
  /\ provFetches[f].phase = "body"
  /\ provFetches' = [provFetches EXCEPT ![f].phase = "done"]
  /\ IF DirectoryThrows(body)
     THEN UNCHANGED providers
     ELSE setProviders(DirectoryOf(body))
  /\ provOp' = ProvOp("body", f, provFetches[f].code, body)
  /\ UNCHANGED <<chatVars, dashVars, shellVars>>

NextProv ==
  \/ ProvMount
  \/ ClickRefreshProviders
  \/ \E f \in FetchIds, code \in StatusCodes : ProvRespond(f, code)
  \/ \E f \in FetchIds : ProvNetFail(f)
  \/ \E f \in FetchIds, body \in ProviderBodies : ProvBody(f, body)

SpecProv == Init /\ [][NextProv]_vars

(***************************************************************************)
(* The page that hosts the views (Integrations).  It renders the dashboard *)
(* or the chat according to activeView; a click on the view selector       *)
(* unmounts one component and mounts the other.  The chat has no effect    *)
(* cleanup, so its sockets and timers outlive it, bound to the state       *)
(* setters and to the ref of the unmounted component.  The requests of the *)
(* dashboard and of the provider directory are explored by SpecDash and    *)
(* SpecProv; here they are started and left pending.                       *)
(***************************************************************************)
MaxViewClicks == 2

Views == {"dashboard", "chat"}

\* socket s was created by a chat view that is no longer mounted
Orphan(s) == activeView # "chat" \/ s <= chatSince

\* <MultiAgentChat /> is mounted: the useState and useRef initialisers, then
\* the effect that calls fetchProviders()
MountChat ==
  /\ messages' = <<>>
  /\ inputValue' = ""
  /\ selectedAgents' = <<"gemini", "claude">>
  /\ isConnected' = FALSE
  /\ isConnecting' = FALSE
  /\ agentStatuses' = EmptyObj
  /\ sessionId' = Null
  /\ error' = Null
  /\ wsRef' = 0
  /\ providers' = <<>>
  /\ fetchProviders("mount")
  /\ provOp' = ProvOp("mount", Len(provFetches) + 1, 0, Null)
  /\ chatSince' = Len(socks)
  /\ startSel' = <<>>
  /\ nLogEnv' = 0
  /\ knownAgents' = {"gemini", "claude"}
  /\ lastOp' = Op("mount", Null)

\* <MultiAgentChat /> is unmounted: no effect returns a cleanup, so nothing
\* is closed or cleared; the pending timers keep the ref they captured
UnmountChat ==
  /\ orphanTimers' = orphanTimers \o
       [i \in 1..Len(timers) |->
          [id |-> timers[i].id, ref |-> wsRef, agents |-> timers[i].agents]]
  /\ UNCHANGED <<messages, inputValue, selectedAgents, isConnected,
                 isConnecting, agentStatuses, sessionId, error, wsRef,
                 chatSince, startSel, nLogEnv, knownAgents, lastOp>>
  /\ UNCHANGED provVars

\* <IntegrationDashboard /> is mounted: the useState initialisers, then the
\* effect that calls refreshAll() and arms the interval
MountDashboard ==
  /\ serviceStatuses' = EmptyObj
  /\ gatewayStats' = Null
  /\ gatewayProviders' = <<>>
  /\ podcastRuns' = <<>>
  /\ lastUpdated' = 0
  /\ refreshAll("mount")
  /\ lifecycle' = "mounted"
  /\ interval' = TRUE
  /\ dashOp' = DashOp("mount", Len(cycles) + 1, 0, Null)

\* <IntegrationDashboard /> is unmounted: the cleanup of its effect runs
UnmountDashboard ==
  /\ lifecycle' = "unmounted"
  /\ interval' = FALSE
  /\ dashOp' = DashOp("unmount", 0, 0, Null)
  /\ UNCHANGED <<serviceStatuses, gatewayStats, gatewayProviders, podcastRuns,
                 isRefreshing, lastUpdated, cycles>>

\* the user clicks a button of the view selector: setActiveView(view).  A
\* click on the active view renders nothing anew.
ClickView(view) ==
  /\ nViewClicks < MaxViewClicks
  /\ nViewClicks' = nViewClicks + 1
  /\ activeView = "dashboard" => lifecycle = "mounted"
  /\ activeView' = view
  /\ IF view = activeView
     THEN UNCHANGED <<messages, inputValue, selectedAgents, isConnected,
                      isConnecting, agentStatuses, sessionId, error, wsRef,
                      timers, startSel, nLogEnv, knownAgents, lastOp,
                      provVars, serviceStatuses, gatewayStats,
                      gatewayProviders, podcastRuns, isRefreshing,
                      lastUpdated, cycles, lifecycle, interval, dashOp,
                      chatSince, orphanTimers>>
     ELSE IF view = "chat"
     THEN /\ UnmountDashboard
          /\ MountChat
          /\ UNCHANGED <<timers, orphanTimers>>
     ELSE /\ UnmountChat
          /\ MountDashboard
          /\ timers' = <<>>
  /\ UNCHANGED <<socks, nEvents, nDashEvents>>

\* the open event of a socket of an unmounted chat view: its handler calls
\* state setters of a component that no longer exists
OrphanOpen(s) ==
  /\ Orphan(s)
  /\ socks[s].readyState = CONNECTING
  /\ socks' = [socks EXCEPT ![s].readyState = OPEN, ![s].opened = "late"]
  /\ UNCHANGED <<messages, inputValue, selectedAgents, isConnected,
                 isConnecting, agentStatuses, sessionId, error, wsRef,
                 timers, startSel, nLogEnv, nEvents, knownAgents, lastOp>>
  /\ UNCHANGED <<provVars, dashVars, shellVars>>

\* the closing handshake of a socket of an unmounted chat view completes
OrphanClosed(s) ==
  /\ Orphan(s)
  /\ socks[s].readyState = CLOSING
  /\ socks' = [socks EXCEPT ![s].readyState = CLOSED]
  /\ UNCHANGED <<messages, inputValue, selectedAgents, isConnected,
                 isConnecting, agentStatuses, sessionId, error, wsRef,
                 timers, startSel, nLogEnv, nEvents, knownAgents, lastOp>>
  /\ UNCHANGED <<provVars, dashVars, shellVars>>

\* the connection of a socket of an unmounted chat view is refused or lost
OrphanFail(s) ==
  /\ Orphan(s)
  /\ socks[s].readyState \in {CONNECTING, OPEN}
  /\ socks' = [socks EXCEPT ![s].readyState = CLOSED, ![s].failed = TRUE]
  /\ UNCHANGED <<messages, inputValue, selectedAgents, isConnected,
                 isConnecting, agentStatuses, sessionId, error, wsRef,
                 timers, startSel, nLogEnv, nEvents, knownAgents, lastOp>>
  /\ UNCHANGED <<provVars, dashVars, shellVars>>

\* the 500 ms timer of a startSession of an unmounted chat view expires: the
\* callback still reads the ref and the selection it captured
OrphanTimerFire ==
  /\ orphanTimers # <<>>
  /\ LET t == Head(orphanTimers)
     IN  socks' = IF t.ref # 0 /\ socks[t.ref].readyState = OPEN
                  THEN WsSend(socks, t.ref, StartFrame(t.agents))
                  ELSE socks
  /\ orphanTimers' = Tail(orphanTimers)
  /\ UNCHANGED <<messages, inputValue, selectedAgents, isConnected,
                 isConnecting, agentStatuses, sessionId, error, wsRef,
                 timers, startSel, nLogEnv, nEvents, knownAgents, lastOp>>
  /\ UNCHANGED <<provVars, dashVars>>
  /\ UNCHANGED <<activeView, chatSince, nViewClicks>>

NextShell ==
  \/ \E view \in Views : ClickView(view)
  \/ activeView = "dashboard" /\ Mount
  \/ \E a \in ToggleIds : activeView = "chat" /\ ClickToggle(a)
  \/ activeView = "chat" /\ ClickStart
  \/ activeView = "chat" /\ orphanTimers = <<>> /\ TimerFire
  \/ activeView = "chat" /\ ClickEnd
  \/ \E v \in InputTexts : activeView = "chat" /\ TypeInput(v)
  \/ activeView = "chat" /\ PressEnter
  \/ activeView = "chat" /\ ClickSend
  \/ \E s \in SockIds : ~Orphan(s) /\ SockOpen(s)
  \/ \E s \in SockIds : PeerClosing(s)
  \/ \E s \in SockIds : ~Orphan(s) /\ SockClosed(s)
  \/ \E s \in SockIds : ~Orphan(s) /\ SockFail(s)
  \/ \E s \in SockIds, p \in Payloads : ~Orphan(s) /\ Deliver(s, p)
  \/ \E s \in SockIds : OrphanOpen(s)
  \/ \E s \in SockIds : OrphanClosed(s)
  \/ \E s \in SockIds : OrphanFail(s)
  \/ OrphanTimerFire

SpecShell == Init /\ [][NextShell]_vars

(***************************************************************************)
(* Vocabulary of the properties                                            *)
(***************************************************************************)
\* what every socket has transmitted is the same before and after the step
NothingSent == \A s \in SockIds : socks'[s].out = socks[s].out

\* number of frames of the given type in a sequence of frames
RECURSIVE CountType(_, _)
CountType(frames, type) ==
  IF frames = <<>> THEN 0
  ELSE (IF Head(frames).type = type THEN 1 ELSE 0)
         + CountType(Tail(frames), type)

\* the step transmits exactly the frame f, on socket s, and nothing else
SentExactly(s, f) ==
  /\ socks'[s].out = Append(socks[s].out, f)
  /\ \A t \in SockIds \ {s} : socks'[t].out = socks[t].out

\* the step creates no WebSocket
NoNewSocket == Len(socks') = Len(socks)

(***************************************************************************)
(* C1: SendUserMessage is a no-op whenever the socket is not open or the   *)
(* input is empty or whitespace-only: the message log does not grow, no    *)
(* envelope is emitted, and AgentStatus is unchanged.                      *)
(***************************************************************************)
SendRejectedIsNoOp ==
  [][(lastOp'.op = "send" /\ (~RefIsOpen \/ Trim(inputValue) = ""))
       => /\ messages' = messages
          /\ NothingSent
          /\ agentStatuses' = agentStatuses]_vars

\* a send was attempted with a non-blank text while the view showed the
\* session as connected but the socket was no longer open
SendRejectedWitness ==
  /\ lastOp.op = "send"
  /\ isConnected
  /\ ~RefIsOpen
  /\ Trim(inputValue) # ""

(***************************************************************************)
(* C2 (as claimed): StartSession called while disconnected makes one       *)
(* connection attempt, and if that connection reaches connected within     *)
(* the 500 ms window, exactly one start_session envelope is sent, carrying *)
(* the agent list selected when StartSession was called.                   *)
(***************************************************************************)
StartSentIfOpenedInWindow ==
  [][(lastOp'.op = "timer" /\ socks[Head(timers).id].opened = "inWindow")
       => LET s == Head(timers).id IN
          /\ CountType(socks'[s].out, "start_session") = 1
          /\ \A i \in 1..Len(socks'[s].out) :
                socks'[s].out[i].type = "start_session"
                  => socks'[s].out[i].body = startSel[s]]_vars

(***************************************************************************)
(* C2 (amended): StartSession called with a non-empty selection while no   *)
(* open socket is held makes one connection attempt and arms one timer;    *)
(* when that timer fires it sends exactly one start_session envelope, with *)
(* the agent list selected when StartSession was called, if the            *)
(* controller's current socket is open at that moment, and nothing         *)
(* otherwise.                                                              *)
(***************************************************************************)
StartSentIfOpenAtTimeout ==
  [][/\ (lastOp'.op = "start" /\ ~startDisabled /\ ~RefIsOpen)
          => /\ Len(socks') = Len(socks) + 1
             /\ socks'[Len(socks')].readyState = CONNECTING
             /\ wsRef' = Len(socks')
             /\ Len(timers') = Len(timers) + 1
             /\ NothingSent
     /\ (lastOp'.op = "timer")
          => IF RefIsOpen
             THEN SentExactly(wsRef, StartFrame(startSel[Head(timers).id]))
             ELSE NothingSent]_vars

\* the timer has just sent a start_session whose agent list differs from the
\* current selection: the selection was toggled inside the window
StartSentWitness ==
  /\ lastOp.op = "timer"
  /\ wsRef # 0
  /\ socks[wsRef].opened = "inWindow"
  /\ Len(socks[wsRef].out) = 1
  /\ socks[wsRef].out[1].type = "start_session"
  /\ socks[wsRef].out[1].body # selectedAgents

(***************************************************************************)
(* C3: if the connection opened by StartSession reaches connected only     *)
(* after the 500 ms timer has fired, the start request is dropped: the     *)
(* attempt sends no start_session envelope, neither when the socket opens  *)
(* nor later (nothing is queued and no timer is re-armed; a start_session  *)
(* on that socket can only come from a new StartSession click), although   *)
(* the controller still becomes connected.                                 *)
(***************************************************************************)
LateOpenDropsStart ==
  [][\A s \in SockIds :
       /\ (socks[s].readyState = CONNECTING /\ socks'[s].readyState = OPEN
              /\ ~TimerPending(s))
            => /\ isConnected'
               /\ socks'[s].out = <<>>
               /\ timers' = timers
       /\ (socks'[s].opened = "late"
              /\ CountType(socks'[s].out, "start_session")
                    > CountType(socks[s].out, "start_session"))
            => lastOp'.op = "start"]_vars

\* a socket has just opened after its timer had fired: connected, nothing sent
LateOpenWitness ==
  /\ lastOp.op = "open"
  /\ isConnected
  /\ RefIsOpen
  /\ socks[wsRef].opened = "late"
  /\ socks[wsRef].out = <<>>
  /\ timers = <<>>

EndedByUser(s) ==
  /\ socks[s].readyState = CLOSING
  /\ socks[s].out # <<>>
  /\ socks[s].out[Len(socks[s].out)].type = "end_session"

ConnectWhileLiveIsNoOp ==
  [][(lastOp'.op = "start"
        /\ \E s \in SockIds : socks[s].readyState \in {CONNECTING, OPEN})
       => /\ NoNewSocket
          /\ UNCHANGED <<wsRef, isConnecting, isConnected, sessionId, error>>]_vars

(***************************************************************************)
(* C6 (as claimed): at most one live session per controller: in every      *)
(* reachable state at most one socket is connecting or open.               *)
(***************************************************************************)
AtMostOneLiveSocket ==
  Cardinality({s \in SockIds : socks[s].readyState \in {CONNECTING, OPEN}}) <= 1

(***************************************************************************)
(* C7: on any transport closure, peer-initiated or by network failure,     *)
(* the connection state becomes disconnected (neither connected nor        *)
(* connecting) and the AgentStatus map is cleared entirely.                *)
(***************************************************************************)
ClosureDisconnectsAndClears ==
  [][(\E s \in SockIds :
        socks[s].readyState # CLOSED /\ socks'[s].readyState = CLOSED)
       => /\ ~isConnected'
          /\ ~isConnecting'
          /\ ConnState' = "disconnected"
          /\ agentStatuses' = EmptyObj]_vars

\* a socket that had delivered an agent message has just closed
ClosureWitness ==
  /\ lastOp.op = "close"
  /\ Len(socks) = 1
  /\ socks[1].readyState = CLOSED
  /\ \E i \in 1..Len(messages) : messages[i].type = "agent"
  /\ agentStatuses = EmptyObj
  /\ ConnState = "disconnected"

(***************************************************************************)
(* C8: ToggleAgentSelection is rejected once the connection state is       *)
(* connected: a toggle request made then leaves the selection unchanged.   *)
(***************************************************************************)
ToggleRejectedWhenConnected ==
  [][(lastOp'.op = "toggle" /\ ConnState = "connected")
       => selectedAgents' = selectedAgents]_vars

\* a toggle was requested while connected
ToggleRejectedWitness ==
  /\ lastOp.op = "toggle"
  /\ ConnState = "connected"
  /\ selectedAgents = <<"gemini", "claude">>

(***************************************************************************)
(* C9: the message log grows by exactly one entry per message, error,      *)
(* session_started and action_result envelope received and by none for a   *)
(* status envelope or an unrecognized type, so the number of log entries   *)
(* that are not locally generated equals the number of those envelopes.    *)
(***************************************************************************)
\* log entries generated locally: the connection notice and user messages
LocalEntries ==
  {i \in 1..Len(messages) :
     \/ messages[i].type = "user"
     \/ /\ messages[i].type = "system"
        /\ messages[i].content = "Connected to Multi-Agent Meeting Room"}

LogCountsEnvelopes ==
  Len(messages) = nLogEnv + Cardinality(LocalEntries)

\* two log-producing envelopes and a status envelope have been received:
\* the log holds the connection notice and two entries that are not agent
\* messages, and the status map holds a value only a status envelope stores
LogCountsWitness ==
  /\ nLogEnv = 2
  /\ Len(socks) = 1
  /\ Len(messages) = 3
  /\ \A i \in 1..Len(messages) : messages[i].type \in {"system", "error", "action"}
  /\ DOMAIN agentStatuses = {"gemini"}
  /\ agentStatuses["gemini"] = "busy"

(***************************************************************************)
(* C10: whenever a message envelope arrives from sender A, the status      *)
(* stored under the lower-cased name of A is idle afterwards, whatever     *)
(* status was stored for A before.                                         *)
(***************************************************************************)
\* the lower-cased form of each sender name the gateway uses
LowerCased == [w \in {"Gemini", "OLLAMA"} |->
                 IF w = "Gemini" THEN "gemini" ELSE "ollama"]

MessageResetsSender ==
  [][(lastOp'.op = "message" /\ Len(messages') = Len(messages) + 1
        /\ messages'[Len(messages')].type = "agent"
        /\ messages'[Len(messages')].sender \in DOMAIN LowerCased)
       => LET key == LowerCased[messages'[Len(messages')].sender] IN
          /\ key \in DOMAIN agentStatuses'
          /\ agentStatuses'[key] = "idle"
          /\ DOMAIN agentStatuses' = DOMAIN agentStatuses \cup {key}]_vars

\* a message from Gemini has just arrived while gemini was thinking (set by
\* the user message that precedes it in the log), and gemini is idle
MessageResetsWitness ==
  /\ lastOp.op = "message"
  /\ nLogEnv = 1
  /\ Len(messages) = 3
  /\ messages[2].type = "user"
  /\ messages[3].type = "agent"
  /\ messages[3].sender = "Gemini"
  /\ DOMAIN agentStatuses = {"gemini", "claude"}
  /\ agentStatuses["gemini"] = "idle"
  /\ agentStatuses["claude"] = "thinking"

(***************************************************************************)
(* C11: an envelope of unrecognized type and a payload that cannot be      *)
(* parsed are dropped without effect: the message log, the status map,     *)
(* the connection state and the user-visible error are unchanged, and the  *)
(* socket they arrived on stays as it was, so later envelopes are still    *)
(* delivered to the same handler.                                          *)
(***************************************************************************)
\* the envelope types handleWebSocketMessage has a case for
KnownTypes == {"message", "status", "error", "session_started",
               "action_result"}

DroppedPayloadIsNoOp ==
  [][(lastOp'.op = "message" /\ lastOp'.arg \notin KnownTypes)
       => /\ messages' = messages
          /\ agentStatuses' = agentStatuses
          /\ isConnected' = isConnected
          /\ isConnecting' = isConnecting
          /\ error' = error
          /\ sessionId' = sessionId
          /\ wsRef' = wsRef
          /\ socks' = socks
          /\ \E s \in DOMAIN socks' : socks'[s].readyState = OPEN]_vars

\* an unparseable payload has just been dropped in a connected session
\* whose agents are thinking about the user's message; the socket is open
DroppedPayloadWitness ==
  /\ lastOp = Op("message", "unparseable")
  /\ isConnected
  /\ RefIsOpen
  /\ Len(messages) = 2
  /\ messages[2].type = "user"
  /\ DOMAIN agentStatuses = {"gemini", "claude"}
  /\ agentStatuses["gemini"] = "thinking"

(***************************************************************************)
(* Vocabulary of the dashboard properties                                  *)
(***************************************************************************)
ServiceIds == {SERVICES[i] : i \in 1..Len(SERVICES)}

\* cycle c exists and has not returned
InFlight(c) == c \in CycleIds /\ cycles[c].pc # "done"

\* the status code is a 2xx
Is2xx(code) == code \in 200..299

(***************************************************************************)
(* C12: every started call of refreshAll eventually ends, with a status    *)
(* stored for every configured service, the last-refreshed timestamp set   *)
(* and the refreshing flag reset by it, as long as the run still has       *)
(* events left for the services to answer with.                            *)
(***************************************************************************)
RefreshAllTerminates ==
  \A c \in 1..MaxCycles :
    (c \in CycleIds)
      ~> \/ /\ c \in CycleIds
            /\ cycles[c].pc = "done"
            /\ DOMAIN serviceStatuses = ServiceIds
            /\ lastUpdated > 0
         \/ nDashEvents = MaxDashEvents

(***************************************************************************)
(* C13: a probe that is pending is bounded by its 5000 ms abort timer:     *)
(* whether it waits for the response headers or for the response body,     *)
(* the timer is armed, so that the probe resolves with status timeout.     *)
(***************************************************************************)
PendingProbeIsTimed ==
  \A c \in CycleIds : cycles[c].pc = "probe" => cycles[c].timer

(***************************************************************************)
(* C14: a probe classifies every outcome into exactly one status: online   *)
(* with the payload for a 2xx response whose body parsed, error with the   *)
(* status code in the message for a non-2xx response, timeout for an       *)
(* abort by the timer, offline for every other failure; online is          *)
(* returned for nothing but a 2xx response whose body parsed.              *)
(***************************************************************************)
ProbeClassifies ==
  [][\A c \in CycleIds :
       (/\ dashOp'.c = c
        /\ cycles[c].pc = "probe"
        /\ (cycles'[c].pc # "probe" \/ cycles'[c].idx # cycles[c].idx))
       => LET id == SERVICES[cycles[c].idx]
              r == IF cycles'[c].pc = "probe" THEN cycles'[c].statuses[id]
                   ELSE serviceStatuses'[id]
              parsed == /\ dashOp'.op = "body"
                        /\ Is2xx(cycles[c].code)
                        /\ dashOp'.body # "garbage"
              refused == dashOp'.op = "respond" /\ ~Is2xx(dashOp'.code)
              aborted == dashOp'.op = "abort"
          IN  /\ r.status \in {"online", "error", "timeout", "offline"}
              /\ r.status = "online" <=> parsed
              /\ parsed => r.data = "{total_calls}"
              /\ r.status = "error" <=> refused
              /\ (refused /\ dashOp'.code = 404) => r.error = "HTTP 404"
              /\ r.status = "timeout" <=> aborted
              /\ r.status = "offline" <=> ~(parsed \/ refused \/ aborted)]_vars

\* the first probe of the mount cycle has returned online with its payload
\* after a 200 response whose body parsed
ProbeClassifiesWitness ==
  /\ dashOp = DashOp("body", 1, 200, "full")
  /\ cycles[1].pc = "probe"
  /\ cycles[1].idx = 2
  /\ cycles[1].statuses[PODCAST].status = "online"
  /\ cycles[1].statuses[PODCAST].data = "{total_calls}"

(***************************************************************************)
(* C15: the stored status map is never partial: the probes of a cycle run  *)
(* one at a time in the configured order into a map of the cycle's own,    *)
(* and the stored map is either the initial empty map or holds a status    *)
(* for every configured service, all of them computed by one cycle.        *)
(***************************************************************************)
StatusMapIsWhole ==
  /\ \/ serviceStatuses = EmptyObj
     \/ /\ DOMAIN serviceStatuses = ServiceIds
        /\ \E c \in CycleIds :
             \A id \in ServiceIds : serviceStatuses[id].cycle = c
  /\ \A c \in CycleIds :
       cycles[c].pc = "probe" =>
         /\ DOMAIN cycles[c].statuses =
              {SERVICES[i] : i \in 1..(cycles[c].idx - 1)}
         /\ \A id \in DOMAIN cycles[c].statuses :
              cycles[c].statuses[id].cycle = c

\* the cycle the timer started has stored its map while the mount cycle is
\* still probing its third service
StatusMapWitness ==
  /\ Len(cycles) = 2
  /\ cycles[1].pc = "probe"
  /\ cycles[1].idx = 3
  /\ cycles[2].by = "interval"
  /\ DOMAIN serviceStatuses = ServiceIds
  /\ serviceStatuses[GATEWAY].cycle = 2

(***************************************************************************)
(* C16: in a cycle the detail fetch for the gateway (respectively the      *)
(* podcast pipeline) is attempted if and only if the cycle's probe of      *)
(* that service returned online, and only once the cycle has stored its    *)
(* status map; the requests after the probes are those of these two        *)
(* services only.                                                          *)
(***************************************************************************)
\* the cycle's probe of service id returned online
Online(statuses, id) == statuses[id].status = "online"

DetailsIffOnline ==
  [][\A c \in CycleIds :
       LET before == cycles[c].pc
           after == cycles'[c].pc
           map == IF before = "probe" THEN serviceStatuses'
                  ELSE cycles[c].statuses
       IN  (before # after) =>
             /\ before = "probe" =>
                  /\ DOMAIN serviceStatuses' = ServiceIds
                  /\ \A id \in ServiceIds : serviceStatuses'[id].cycle = c
                  /\ after = "providers" <=> Online(map, GATEWAY)
             /\ after = "providers" => before = "probe"
             /\ after = "statistics" => before = "providers"
             /\ (before = "probe" /\ ~Online(map, GATEWAY)) =>
                  (after = "runs" <=> Online(map, PODCAST))
             /\ (before \in {"providers", "statistics"}
                   /\ after # "statistics") =>
                  (after = "runs" <=> Online(map, PODCAST))
             /\ after = "runs" =>
                  before \in {"probe", "providers", "statistics"}
             /\ after \in {"providers", "statistics", "runs", "done"}]_vars

\* the gateway and the podcast pipeline are both online in the stored map,
\* the provider fetch has failed and the cycle awaits the runs
DetailsIffOnlineWitness ==
  /\ dashOp = DashOp("netfail", 1, 0, Null)
  /\ cycles[1].pc = "runs"
  /\ DOMAIN serviceStatuses = ServiceIds
  /\ serviceStatuses[GATEWAY].status = "online"
  /\ serviceStatuses[PODCAST].status = "online"
  /\ serviceStatuses[PODCAST].cycle = 1

(***************************************************************************)
(* C17: a detail fetch that fails (non-2xx response, network error or      *)
(* unparseable body) changes neither the stored status map nor any of the  *)
(* cached providers, statistics and runs.                                  *)
(***************************************************************************)
DetailFailureIsSilent ==
  [][\A c \in CycleIds :
       (/\ dashOp'.c = c
        /\ cycles[c].pc \in {"providers", "statistics", "runs"}
        /\ \/ dashOp'.op = "netfail"
           \/ dashOp'.op = "respond" /\ ~Is2xx(dashOp'.code)
           \/ dashOp'.op = "body" /\ dashOp'.body = "garbage")
       => /\ serviceStatuses' = serviceStatuses
          /\ gatewayProviders' = gatewayProviders
          /\ gatewayStats' = gatewayStats
          /\ podcastRuns' = podcastRuns]_vars

\* the statistics request has been answered 404 after the providers were
\* cached: the providers are still cached and the gateway is still online
DetailFailureWitness ==
  /\ dashOp = DashOp("respond", 1, 404, Null)
  /\ cycles[1].pc \in {"runs", "done"}
  /\ gatewayProviders = <<"openai", "gemini">>
  /\ gatewayStats = Null
  /\ serviceStatuses[GATEWAY].status = "online"

(***************************************************************************)
(* C18: a cycle is started once by the mount and once by every period of   *)
(* the interval that elapses while the dashboard is mounted; the teardown  *)
(* cancels the interval, and no cycle is started after it.                 *)
(***************************************************************************)
CyclesStartWhileMounted ==
  [][/\ dashOp'.op = "mount" =>
          /\ cycles = <<>>
          /\ Len(cycles') = 1
          /\ cycles'[1].by = "mount"
          /\ interval'
     /\ dashOp'.op = "tick" => lifecycle = "mounted"
     /\ Len(cycles') # Len(cycles) =>
          /\ Len(cycles') = Len(cycles) + 1
          /\ lifecycle' = "mounted"
          /\ dashOp'.op \in {"mount", "tick", "click"}
     /\ lifecycle' = "unmounted" => ~interval'
     /\ lifecycle = "unmounted" => lifecycle' = "unmounted"]_vars

\* the dashboard has been torn down while the mount cycle and a cycle of
\* the interval are in flight; one of them went on after the teardown
CyclesStartWitness ==
  /\ lifecycle = "unmounted"
  /\ ~interval
  /\ Len(cycles) = 2
  /\ cycles[2].by = "interval"
  /\ InFlight(1)
  /\ dashOp.op = "abort"

(***************************************************************************)
(* C19: the interval has no overlap guard: every period that elapses       *)
(* starts a cycle whether or not a cycle is in flight, so two cycles can   *)
(* be in flight at once, the second started by the timer.                  *)
(***************************************************************************)
TickAlwaysStartsCycle ==
  [][dashOp'.op = "tick" =>
       /\ Len(cycles') = Len(cycles) + 1
       /\ cycles'[Len(cycles')].by = "interval"
       /\ cycles'[Len(cycles')].pc = "probe"]_vars

\* two cycles are in flight, the second started by the timer while the
\* mount cycle was probing
OverlapWitness ==
  /\ Len(cycles) = 2
  /\ InFlight(1)
  /\ InFlight(2)
  /\ cycles[2].by = "interval"
  /\ dashOp.op = "tick"
  /\ isRefreshing

(***************************************************************************)
(* C20: a call of fetchProviders that succeeds replaces the cached list    *)
(* by the fetched one; a call that fails (non-2xx response, network error  *)
(* or unparseable body) leaves the cache as it was; a request is sent by   *)
(* the mount and by a click only, never as a retry.                        *)
(***************************************************************************)
\* the list each body of /providers carries
Fetched == [b \in {"empty", "one", "two"} |->
              IF b = "one" THEN <<"gemini">>
              ELSE IF b = "two" THEN <<"gemini", "claude">> ELSE <<>>]

ProvidersReplacedOrKept ==
  [][/\ (provOp'.op = "body" /\ provOp'.body \in DOMAIN Fetched
           /\ Is2xx(provOp'.code))
          => providers' = Fetched[provOp'.body]
     /\ (\/ provOp'.op = "netfail"
         \/ provOp'.op = "respond" /\ ~Is2xx(provOp'.code)
         \/ provOp'.op = "body" /\ provOp'.body \in {"garbage", "null"})
          => /\ providers' = providers
             /\ Len(provFetches') = Len(provFetches)
     /\ Len(provFetches') # Len(provFetches)
          => /\ Len(provFetches') = Len(provFetches) + 1
             /\ provOp'.op \in {"mount", "click"}
     /\ provOp'.op = "mount" => provFetches = <<>>]_vars

\* a list of two providers was cached, a later call has replaced it by a
\* list of one, and the call after that was answered 404: the list of one
\* is still cached
ProvidersWitness ==
  /\ Len(provFetches) = 3
  /\ \A f \in FetchIds : provFetches[f].phase = "done"
  /\ provFetches[1].code = 200
  /\ provFetches[2].code = 200
  /\ provOp = ProvOp("respond", 3, 404, Null)
  /\ providers = <<"gemini">>

(***************************************************************************)
(* C21: in every reachable state every key of the status map is an agent   *)
(* that has been selected or that has produced a status envelope, and the  *)
(* map is empty whenever the session is disconnected.                      *)
(***************************************************************************)
StatusKeysKnownAndCleared ==
  /\ DOMAIN agentStatuses \subseteq knownAgents
  /\ ConnState = "disconnected" => agentStatuses = EmptyObj

(***************************************************************************)
(* C22: in every reachable state every value stored in the status map is   *)
(* idle or thinking.                                                       *)
(***************************************************************************)
StatusValuesIdleOrThinking ==
  \A k \in DOMAIN agentStatuses : agentStatuses[k] \in {"idle", "thinking"}

(***************************************************************************)
(* C23: the message log is append-only and in arrival order: every event,  *)
(* End Session, a transport closure and a reconnect included, leaves the   *)
(* previous log as a prefix of the new one, and the entry of an inbound    *)
(* envelope is put at the end of the log when the envelope arrives.        *)
(***************************************************************************)
\* the type of the log entry each logged envelope type produces
EntryTypeOf == [t \in {"message", "error", "session_started",
                       "action_result"} |->
                 CASE t = "message" -> "agent"
                   [] t = "error" -> "error"
                   [] t = "session_started" -> "system"
                   [] t = "action_result" -> "action"]

LogIsAppendOnly ==
  [][/\ Len(messages') >= Len(messages)
     /\ Len(messages') <= Len(messages) + 1
     /\ SubSeq(messages', 1, Len(messages)) = messages
     /\ (lastOp'.op = "message" /\ lastOp'.arg \in DOMAIN EntryTypeOf)
          => /\ Len(messages') = Len(messages) + 1
             /\ messages'[Len(messages')].type = EntryTypeOf[lastOp'.arg]]_vars

\* a second session has connected after the first was ended: the log still
\* starts with the entries of the first session, in the order they came
LogIsAppendOnlyWitness ==
  /\ lastOp.op = "open"
  /\ Len(socks) = 2
  /\ Len(messages) = 3
  /\ messages[1].type = "system"
  /\ messages[2].type = "agent"
  /\ messages[3].type = "system"

(***************************************************************************)
(* C24: an accepted send (non-blank text, socket open) appends exactly     *)
(* one user entry to the log, transmits exactly one user_message envelope  *)
(* with the same trimmed content, and sets the status of every selected    *)
(* agent to thinking; the number of user entries in the log always equals  *)
(* the number of user_message envelopes transmitted.                       *)
(***************************************************************************)
\* the texts typed in the explored runs, without surrounding white space
Trimmed == [v \in {"", "  ", " hi "} |-> IF v = " hi " THEN "hi" ELSE ""]

\* every frame transmitted so far, socket after socket
RECURSIVE AllSent(_)
AllSent(n) == IF n = 0 THEN <<>> ELSE AllSent(n - 1) \o socks[n].out

\* this step runs sendMessage and the message is accepted: the input and
\* the send button are enabled only while isConnected, the text is not
\* blank and the current socket is open
SendAccepted ==
  /\ lastOp'.op = "send"
  /\ isConnected
  /\ RefIsOpen
  /\ Trimmed[inputValue] # ""

AcceptedSendIsOneToOne ==
  [][/\ SendAccepted
          => /\ messages' = Append(messages,
                               [type |-> "user", sender |-> Null,
                                content |-> Trimmed[inputValue]])
             /\ SentExactly(wsRef, [type |-> "user_message",
                                    body |-> Trimmed[inputValue]])
             /\ \A i \in 1..Len(selectedAgents) :
                  /\ selectedAgents[i] \in DOMAIN agentStatuses'
                  /\ agentStatuses'[selectedAgents[i]] = "thinking"
     /\ CountType(messages', "user")
          = CountType(AllSent(Len(socks))', "user_message")]_vars

\* the user's text has just been accepted: it is the last entry of the log
\* and the last frame on the wire, after the start request
AcceptedSendWitness ==
  /\ lastOp.op = "send"
  /\ inputValue = ""
  /\ Len(messages) = 2
  /\ messages[2].type = "user"
  /\ messages[2].content = "hi"
  /\ RefIsOpen
  /\ Len(socks[wsRef].out) = 2
  /\ socks[wsRef].out[1].type = "start_session"
  /\ socks[wsRef].out[2].type = "user_message"
  /\ socks[wsRef].out[2].body = "hi"

(***************************************************************************)
(* C27: an accepted send replaces the status map wholesale: afterwards     *)
(* its keys are exactly the selected agents, every value is thinking, and  *)
(* the entries held before for agents outside the selection are gone.      *)
(***************************************************************************)
AcceptedSendReplacesStatuses ==
  [][SendAccepted
       => /\ DOMAIN agentStatuses' =
               {selectedAgents[i] : i \in 1..Len(selectedAgents)}
          /\ \A k \in DOMAIN agentStatuses' : agentStatuses'[k] = "thinking"]_vars

\* a message of OLLAMA, which is not selected, had put ollama in the map;
\* the send that followed left only the two selected agents in it
ReplacesStatusesWitness ==
  /\ lastOp.op = "send"
  /\ Len(messages) = 3
  /\ messages[2].type = "agent"
  /\ messages[2].sender = "OLLAMA"
  /\ messages[3].type = "user"
  /\ DOMAIN agentStatuses = {"gemini", "claude"}

(***************************************************************************)
(* C25: whenever the connection state is connected, the current socket is  *)
(* open; a close event of the socket of a session ended earlier, delivered *)
(* after a new session has connected, neither marks the new session        *)
(* disconnected nor clears its status map.                                 *)
(***************************************************************************)
\* socket s is not the current one and its close event is delivered in
\* this step
StaleCloseEvent(s) ==
  /\ s # wsRef
  /\ socks[s].readyState # CLOSED
  /\ socks'[s].readyState = CLOSED

\* connected implies the current socket is open, here for the state a step
\* leads to
ConnectedMeansOpen == isConnected' => RefIsOpen'

StaleCloseIsIgnored ==
  \A s \in DOMAIN socks :
    (StaleCloseEvent(s) /\ isConnected /\ RefIsOpen)
      => (isConnected' /\ agentStatuses' = agentStatuses)

ConnectedSessionOwnsOpenSocket ==
  [][ConnectedMeansOpen /\ StaleCloseIsIgnored]_vars

(***************************************************************************)
(* C26: when calls of refreshAll overlap, the status map that remains      *)
(* stored once all of them have returned is the one computed by the call   *)
(* that started last, and the refreshing flag stays true for as long as    *)
(* any call is still in flight.                                            *)
(***************************************************************************)
\* every started call of refreshAll has returned
AllReturned == cycles # <<>> /\ \A c \in CycleIds : cycles[c].pc = "done"

StoredMapIsOfLastCycle ==
  AllReturned =>
    \A id \in DOMAIN serviceStatuses : serviceStatuses[id].cycle = Len(cycles)

RefreshingWhileInFlight == (\E c \in CycleIds : InFlight(c)) => isRefreshing

LastCycleWins == StoredMapIsOfLastCycle /\ RefreshingWhileInFlight

(***************************************************************************)
(* C28: the page mounts exactly one of the chat view and the dashboard at  *)
(* a time, and when it switches away from the chat view while a session is *)
(* connected the chat socket is closed: no chat socket stays open once the *)
(* chat view that owns it is unmounted.                                    *)
(***************************************************************************)
\* the views the page renders: activeView === 'dashboard' && ...,
\* activeView === 'chat' && ...
MountedViews == {v \in {"dashboard", "chat"} : activeView = v}

NoOpenSocketWithoutChat ==
  /\ Cardinality(MountedViews) = 1
  /\ \A s \in SockIds : Orphan(s) => socks[s].readyState # OPEN

=============================================================================
